---- MODULE Spec2Model ----
(***************************************************************************)
(* Lifecycle of the MTP server binding, media/jni/android_media_MtpServer. *)
(* A controller object (the Java MtpServer, "thiz") keeps one native       *)
(* pointer in its mNativeContext field (field_context).  native_setup      *)
(* allocates an MtpThread, native_start runs it, native_stop sets its      *)
(* mDone flag and clears the field.  The MtpThread worker executes         *)
(* threadLoop(): open the device node, build an MtpServer, run it, tear    *)
(* it down, read mDone, and delete itself when the flag is set.            *)
(*                                                                         *)
(* The controller handlers are atomic actions (one controller context).    *)
(* threadLoop() is cut at every statement that blocks or that touches      *)
(* state another context can see, so every interleaving of a stop with    *)
(* the worker's open, run and flag read is a behaviour of the model.  The  *)
(* unsynchronised mDone is a single byte: a racing read returns the value  *)
(* before or after the write, which the interleaving of CheckDone and stop  *)
(* enumerates.  A dereference of a null or deleted MtpThread is undefined  *)
(* behaviour; the model records it in err and stops there.                 *)
(***************************************************************************)
EXTENDS Integers, FiniteSets, Sequences, TLC

\* ------------------------------------------------------------------ bounds
\* Number of MtpThread objects the controller allocates in one behaviour.
MaxHandles == 2
\* Number of descriptors the process can have open at once.
FdLimit == 2

\* ------------------------------------------------------------- value sets
NULL == 0
Handles == 1..MaxHandles
\* The Java MtpServer objects whose native methods are called.
Controllers == {"thizA", "thizB"}
\* Arguments of native_setup: the database and the storage path the caller
\* passes, as <<database, storagePath>>.
Paths == {"/sdcard", "/mnt/usb"}
Dbs == {"dbX", "dbY"}
SetupArgs == {<<"dbX", "/sdcard">>, <<"dbY", "/mnt/usb">>}
NoPath == ""
NoDb == "nodb"
NoFd == -1
Fds == 0..(FdLimit - 1)
NoServer == [fd |-> NoFd, db |-> NoDb, storage |-> <<>>]

\* Positions of a worker: "idle" before Thread::run, "exited" after the
\* thread body has returned for good, the others inside threadLoop().
InLoop == {"open", "ctor", "run", "close", "check", "ret"}
PcValues == {"idle", "exited"} \cup InLoop

VARIABLES
    ctx,          \* controller -> mNativeContext (a handle, or NULL)
    alloc,        \* handle -> "free" (not yet new'ed), "live", "deleted"
    mDatabase,    \* handle -> MtpThread::mDatabase
    mStoragePath, \* handle -> MtpThread::mStoragePath
    mDone,        \* handle -> MtpThread::mDone
    pc,           \* handle -> position of its worker thread
    nthreads,     \* handle -> thread bodies started for it and not yet ended
    fd,           \* handle -> local fd of the current threadLoop() call
    server,       \* handle -> the MtpServer of the current call, or NoServer
    done,         \* handle -> local done of the current threadLoop() call
    openFds,      \* descriptors open in the process
    err           \* "none", or the undefined behaviour that was executed

vars == <<ctx, alloc, mDatabase, mStoragePath, mDone, pc, nthreads, fd, server, done, openFds, err>>

heapVars == <<alloc, mDatabase, mStoragePath, mDone>>
workerVars == <<pc, nthreads, fd, server, done, openFds>>

TypeOK ==
    /\ ctx \in [Controllers -> {NULL} \cup Handles]
    /\ alloc \in [Handles -> {"free", "live", "deleted"}]
    /\ mDatabase \in [Handles -> Dbs \cup {NoDb}]
    /\ mStoragePath \in [Handles -> Paths \cup {NoPath}]
    /\ mDone \in [Handles -> BOOLEAN]
    /\ pc \in [Handles -> PcValues]
    /\ nthreads \in [Handles -> Nat]
    /\ fd \in [Handles -> Fds \cup {NoFd}]
    /\ done \in [Handles -> BOOLEAN]
    /\ openFds \subseteq Fds
    /\ err \in {"none", "nullderef", "useafterfree"}

Init ==
    /\ ctx = [c \in Controllers |-> NULL]
    /\ alloc = [h \in Handles |-> "free"]
    /\ mDatabase = [h \in Handles |-> NoDb]
    /\ mStoragePath = [h \in Handles |-> NoPath]
    /\ mDone = [h \in Handles |-> FALSE]
    /\ pc = [h \in Handles |-> "idle"]
    /\ nthreads = [h \in Handles |-> 0]
    /\ fd = [h \in Handles |-> NoFd]
    /\ server = [h \in Handles |-> NoServer]
    /\ done = [h \in Handles |-> FALSE]
    /\ openFds = {}
    /\ err = "none"

\* ------------------------------------------------------------ MtpThread
\* A constructor that keeps no copy of the storage path.
MtpThread_dropsPath(database, storagePath) ==
    [mDatabase |-> database, mStoragePath |-> NoPath, mDone |-> FALSE]

\* MtpThread::MtpThread: the member initialisers.
MtpThread(database, storagePath) ==
    [mDatabase |-> database, mStoragePath |-> storagePath, mDone |-> FALSE]

\* MtpThread::setDone: the value stored into mDone.
setDone == TRUE

\* open(2) hands out the lowest descriptor that is not in use.
LowestFreeFd == CHOOSE f \in Fds \ openFds : \A g \in Fds \ openFds : f <= g

\* Thread::run without the check for a running thread.
Thread_run_unguarded(h) == "NO_ERROR"

\* Thread::run (utils/threads.h): the status it returns.  It starts a thread
\* body only for a thread that is not running; a running one is left alone.
Thread_run(h) ==
    IF pc[h] \in InLoop THEN "INVALID_OPERATION" ELSE "NO_ERROR"

\* The Thread body's use of threadLoop()'s result: true calls threadLoop()
\* again, false ends the thread.
Thread_next(result) == IF result THEN "open" ELSE "exited"

\* The thread bodies of h left once its threadLoop() call has moved to position p.
Thread_count(h, p) == IF p = "exited" THEN nthreads[h] - 1 ELSE nthreads[h]

\* ------------------------------------------------------- controller side
\* setup that first marks the MtpThread it is about to overwrite as done.
setup_stopsOld(c, database, storagePath) ==
    /\ err = "none"
    /\ \E h \in Handles :
        /\ alloc[h] = "free"
        /\ \A g \in Handles : alloc[g] = "free" => h <= g
        /\ LET thread == MtpThread(database, storagePath) IN
            /\ alloc' = [alloc EXCEPT ![h] = "live"]
            /\ mDatabase' = [mDatabase EXCEPT ![h] = thread.mDatabase]
            /\ mStoragePath' = [mStoragePath EXCEPT ![h] = thread.mStoragePath]
            /\ mDone' = [g \in Handles |->
                            IF g = h THEN thread.mDone
                            ELSE IF g = ctx[c] THEN setDone
                            ELSE mDone[g]]
        /\ ctx' = [ctx EXCEPT ![c] = h]
    /\ UNCHANGED <<workerVars, err>>

\* android_media_MtpServer_setup
setup(c, database, storagePath) ==
    /\ err = "none"
    /\ \E h \in Handles :
        /\ alloc[h] = "free"
        /\ \A g \in Handles : alloc[g] = "free" => h <= g
        /\ LET thread == MtpThread(database, storagePath) IN
            /\ alloc' = [alloc EXCEPT ![h] = "live"]
            /\ mDatabase' = [mDatabase EXCEPT ![h] = thread.mDatabase]
            /\ mStoragePath' = [mStoragePath EXCEPT ![h] = thread.mStoragePath]
            /\ mDone' = [mDone EXCEPT ![h] = thread.mDone]
        /\ ctx' = [ctx EXCEPT ![c] = h]
    /\ UNCHANGED <<workerVars, err>>

\* finalize that frees the MtpThread its controller still stores.
finalize_deletes(c) ==
    /\ err = "none"
    /\ IF ctx[c] # NULL /\ alloc[ctx[c]] = "live"
       THEN /\ alloc' = [alloc EXCEPT ![ctx[c]] = "deleted"]
            /\ UNCHANGED <<ctx, mDatabase, mStoragePath, mDone, workerVars, err>>
       ELSE UNCHANGED vars

\* android_media_MtpServer_finalize: logs, nothing else.
finalize(c) ==
    /\ err = "none"
    /\ UNCHANGED vars

\* start with a test of the stored reference: a null one is ignored.
start_checked(c) ==
    /\ err = "none"
    /\ LET thread == ctx[c] IN
        IF thread = NULL
        THEN UNCHANGED vars
        ELSE IF alloc[thread] # "live"
        THEN /\ err' = "useafterfree"
             /\ UNCHANGED <<ctx, heapVars, workerVars>>
        ELSE /\ IF Thread_run(thread) = "NO_ERROR"
                THEN /\ pc' = [pc EXCEPT ![thread] = "open"]
                     /\ nthreads' = [nthreads EXCEPT ![thread] = @ + 1]
                ELSE UNCHANGED <<pc, nthreads>>
             /\ UNCHANGED <<ctx, heapVars, fd, server, done, openFds, err>>

\* android_media_MtpServer_start
start(c) ==
    /\ err = "none"
    /\ LET thread == ctx[c] IN
        IF thread = NULL
        THEN /\ err' = "nullderef"
             /\ UNCHANGED <<ctx, heapVars, workerVars>>
        ELSE IF alloc[thread] # "live"
        THEN /\ err' = "useafterfree"
             /\ UNCHANGED <<ctx, heapVars, workerVars>>
        ELSE /\ IF Thread_run(thread) = "NO_ERROR"
                THEN /\ pc' = [pc EXCEPT ![thread] = "open"]
                     /\ nthreads' = [nthreads EXCEPT ![thread] = @ + 1]
                ELSE UNCHANGED <<pc, nthreads>>
             /\ UNCHANGED <<ctx, heapVars, fd, server, done, openFds, err>>

\* stop that marks every allocated MtpThread done, not only the stored one.
stop_allThreads(c) ==
    /\ err = "none"
    /\ LET thread == ctx[c] IN
        IF thread # NULL
        THEN /\ mDone' = [h \in Handles |-> IF alloc[h] = "live" THEN setDone ELSE mDone[h]]
             /\ ctx' = [ctx EXCEPT ![c] = NULL]
             /\ UNCHANGED <<alloc, mDatabase, mStoragePath, workerVars, err>>
        ELSE UNCHANGED vars

\* stop that sets the flag and leaves the stored reference in place.
stop_keepsContext(c) ==
    /\ err = "none"
    /\ LET thread == ctx[c] IN
        IF thread # NULL
        THEN IF alloc[thread] # "live"
             THEN /\ err' = "useafterfree"
                  /\ UNCHANGED <<ctx, heapVars, workerVars>>
             ELSE /\ mDone' = [mDone EXCEPT ![thread] = setDone]
                  /\ UNCHANGED <<ctx, alloc, mDatabase, mStoragePath, workerVars, err>>
        ELSE UNCHANGED vars

\* stop without the test of the stored reference.
stop_unchecked(c) ==
    /\ err = "none"
    /\ LET thread == ctx[c] IN
        IF thread = NULL
        THEN /\ err' = "nullderef"
             /\ UNCHANGED <<ctx, heapVars, workerVars>>
        ELSE /\ mDone' = [mDone EXCEPT ![thread] = setDone]
             /\ ctx' = [ctx EXCEPT ![c] = NULL]
             /\ UNCHANGED <<alloc, mDatabase, mStoragePath, workerVars, err>>

\* stop that waits for the worker: it returns only once the thread has ended.
stop_joins(c) ==
    /\ err = "none"
    /\ LET thread == ctx[c] IN
        IF thread # NULL
        THEN /\ pc[thread] \notin InLoop
             /\ mDone' = [mDone EXCEPT ![thread] = setDone]
             /\ ctx' = [ctx EXCEPT ![c] = NULL]
             /\ UNCHANGED <<alloc, mDatabase, mStoragePath, workerVars, err>>
        ELSE UNCHANGED vars

\* android_media_MtpServer_stop
stop(c) ==
    /\ err = "none"
    /\ LET thread == ctx[c] IN
        IF thread # NULL
        THEN IF alloc[thread] # "live"
             THEN /\ err' = "useafterfree"
                  /\ UNCHANGED <<ctx, heapVars, workerVars>>
             ELSE /\ mDone' = [mDone EXCEPT ![thread] = setDone]
                  /\ ctx' = [ctx EXCEPT ![c] = NULL]
                  /\ UNCHANGED <<alloc, mDatabase, mStoragePath, workerVars, err>>
        ELSE UNCHANGED vars

\* ----------------------------------------------- MtpThread::threadLoop
\* Open that returns true on a failed open: the open is tried again.
Open_retries(h) ==
    /\ err = "none"
    /\ pc[h] = "open"
    /\ \E ok \in BOOLEAN :
        IF ok /\ Fds \ openFds # {}
        THEN /\ fd' = [fd EXCEPT ![h] = LowestFreeFd]
             /\ openFds' = openFds \cup {LowestFreeFd}
             /\ pc' = [pc EXCEPT ![h] = "ctor"]
        ELSE /\ fd' = [fd EXCEPT ![h] = NoFd]
             /\ pc' = [pc EXCEPT ![h] = Thread_next(TRUE)]
             /\ UNCHANGED openFds
    /\ nthreads' = [nthreads EXCEPT ![h] = Thread_count(h, pc'[h])]
    /\ UNCHANGED <<ctx, heapVars, server, done, err>>

\* Open without the test of fd: a failed open goes on to build the server.
Open_unchecked(h) ==
    /\ err = "none"
    /\ pc[h] = "open"
    /\ \E ok \in BOOLEAN :
        IF ok /\ Fds \ openFds # {}
        THEN /\ fd' = [fd EXCEPT ![h] = LowestFreeFd]
             /\ openFds' = openFds \cup {LowestFreeFd}
        ELSE /\ fd' = [fd EXCEPT ![h] = NoFd]
             /\ UNCHANGED openFds
    /\ pc' = [pc EXCEPT ![h] = "ctor"]
    /\ UNCHANGED <<ctx, heapVars, nthreads, server, done, err>>

\* int fd = open("/dev/mtp_usb", O_RDWR); if (fd < 0) return false;
\* The open fails when the driver refuses (ok = FALSE) or no descriptor is left.
Open(h) ==
    /\ err = "none"
    /\ pc[h] = "open"
    /\ \E ok \in BOOLEAN :
        IF ok /\ Fds \ openFds # {}
        THEN /\ fd' = [fd EXCEPT ![h] = LowestFreeFd]
             /\ openFds' = openFds \cup {LowestFreeFd}
             /\ pc' = [pc EXCEPT ![h] = "ctor"]
        ELSE /\ fd' = [fd EXCEPT ![h] = NoFd]
             /\ pc' = [pc EXCEPT ![h] = Thread_next(FALSE)]
             /\ UNCHANGED openFds
    /\ nthreads' = [nthreads EXCEPT ![h] = Thread_count(h, pc'[h])]
    /\ UNCHANGED <<ctx, heapVars, server, done, err>>

\* NewServer that goes into server->run() without the addStorage call.
NewServer_noStorage(h) ==
    /\ err = "none"
    /\ pc[h] = "ctor"
    /\ server' = [server EXCEPT ![h] = [fd |-> fd[h], db |-> mDatabase[h], storage |-> <<>>]]
    /\ pc' = [pc EXCEPT ![h] = "run"]
    /\ UNCHANGED <<ctx, heapVars, nthreads, fd, done, openFds, err>>

\* MtpServer* server = new MtpServer(fd, mDatabase, AID_SDCARD_RW, 0664, 0775);
\* server->addStorage(mStoragePath);  then the call of server->run() begins.
NewServer(h) ==
    /\ err = "none"
    /\ pc[h] = "ctor"
    /\ LET created == [fd |-> fd[h], db |-> mDatabase[h], storage |-> <<>>] IN
        server' = [server EXCEPT ![h] = [created EXCEPT !.storage = Append(@, mStoragePath[h])]]
    /\ pc' = [pc EXCEPT ![h] = "run"]
    /\ UNCHANGED <<ctx, heapVars, nthreads, fd, done, openFds, err>>

\* server->run() returns (the server decides when).
RunReturns(h) ==
    /\ err = "none"
    /\ pc[h] = "run"
    /\ pc' = [pc EXCEPT ![h] = "close"]
    /\ UNCHANGED <<ctx, heapVars, nthreads, fd, server, done, openFds, err>>

\* CloseDelete without the close(fd): the descriptor stays open.
CloseDelete_leaksFd(h) ==
    /\ err = "none"
    /\ pc[h] = "close"
    /\ server' = [server EXCEPT ![h] = NoServer]
    /\ pc' = [pc EXCEPT ![h] = "check"]
    /\ UNCHANGED <<ctx, heapVars, nthreads, fd, done, openFds, err>>

\* close(fd); delete server;
CloseDelete(h) ==
    /\ err = "none"
    /\ pc[h] = "close"
    /\ openFds' = openFds \ {fd[h]}
    /\ server' = [server EXCEPT ![h] = NoServer]
    /\ pc' = [pc EXCEPT ![h] = "check"]
    /\ UNCHANGED <<ctx, heapVars, nthreads, fd, done, err>>

\* CheckDone that never sees the flag: done is always false.
CheckDone_neverSees(h) ==
    /\ err = "none"
    /\ pc[h] = "check"
    /\ alloc[h] = "live"
    /\ done' = [done EXCEPT ![h] = FALSE]
    /\ pc' = [pc EXCEPT ![h] = "ret"]
    /\ UNCHANGED <<ctx, heapVars, nthreads, fd, server, openFds, err>>

\* CheckDone that consumes the flag: it clears mDone after reading it.
CheckDone_clears(h) ==
    /\ err = "none"
    /\ pc[h] = "check"
    /\ alloc[h] = "live"
    /\ done' = [done EXCEPT ![h] = mDone[h]]
    /\ mDone' = [mDone EXCEPT ![h] = FALSE]
    /\ alloc' = [alloc EXCEPT ![h] = IF mDone[h] THEN "deleted" ELSE @]
    /\ pc' = [pc EXCEPT ![h] = "ret"]
    /\ UNCHANGED <<ctx, mDatabase, mStoragePath, nthreads, fd, server, openFds, err>>

\* bool done = mDone; if (done) delete this;
CheckDone(h) ==
    /\ err = "none"
    /\ pc[h] = "check"
    /\ IF alloc[h] = "live"
       THEN /\ done' = [done EXCEPT ![h] = mDone[h]]
            /\ alloc' = [alloc EXCEPT ![h] = IF mDone[h] THEN "deleted" ELSE @]
            /\ pc' = [pc EXCEPT ![h] = "ret"]
            /\ UNCHANGED err
       ELSE /\ err' = "useafterfree"
            /\ UNCHANGED <<done, alloc, pc>>
    /\ UNCHANGED <<ctx, mDatabase, mStoragePath, mDone, nthreads, fd, server, openFds>>

\* Return with the result inverted: return done.
Return_inverted(h) ==
    /\ err = "none"
    /\ pc[h] = "ret"
    /\ pc' = [pc EXCEPT ![h] = Thread_next(done[h])]
    /\ nthreads' = [nthreads EXCEPT ![h] = Thread_count(h, pc'[h])]
    /\ fd' = [fd EXCEPT ![h] = NoFd]
    /\ done' = [done EXCEPT ![h] = FALSE]
    /\ UNCHANGED <<ctx, heapVars, server, openFds, err>>

\* Return that reads the member again after the delete: return !mDone.
Return_readsMember(h) ==
    /\ err = "none"
    /\ pc[h] = "ret"
    /\ IF alloc[h] = "live"
       THEN /\ pc' = [pc EXCEPT ![h] = Thread_next(~mDone[h])]
            /\ nthreads' = [nthreads EXCEPT ![h] = Thread_count(h, pc'[h])]
            /\ fd' = [fd EXCEPT ![h] = NoFd]
            /\ done' = [done EXCEPT ![h] = FALSE]
            /\ UNCHANGED err
       ELSE /\ err' = "useafterfree"
            /\ UNCHANGED <<pc, nthreads, fd, done>>
    /\ UNCHANGED <<ctx, heapVars, server, openFds>>

\* Return that answers true whatever done is: the loop is always rescheduled.
Return_restarts(h) ==
    /\ err = "none"
    /\ pc[h] = "ret"
    /\ pc' = [pc EXCEPT ![h] = Thread_next(TRUE)]
    /\ fd' = [fd EXCEPT ![h] = NoFd]
    /\ done' = [done EXCEPT ![h] = FALSE]
    /\ UNCHANGED <<ctx, heapVars, nthreads, server, openFds, err>>

\* return !done;  The locals fd and done end with the call.
Return(h) ==
    /\ err = "none"
    /\ pc[h] = "ret"
    /\ pc' = [pc EXCEPT ![h] = Thread_next(~done[h])]
    /\ nthreads' = [nthreads EXCEPT ![h] = Thread_count(h, pc'[h])]
    /\ fd' = [fd EXCEPT ![h] = NoFd]
    /\ done' = [done EXCEPT ![h] = FALSE]
    /\ UNCHANGED <<ctx, heapVars, server, openFds, err>>

threadLoop(h) ==
    \/ Open(h)
    \/ NewServer(h)
    \/ RunReturns(h)
    \/ CloseDelete(h)
    \/ CheckDone(h)
    \/ Return(h)

Next ==
    \/ \E c \in Controllers, a \in SetupArgs : setup(c, a[1], a[2])
    \/ \E c \in Controllers : finalize(c)
    \/ \E c \in Controllers : start(c)
    \/ \E c \in Controllers : stop(c)
    \/ \E h \in Handles : threadLoop(h)

Spec == Init /\ [][Next]_vars

\* The worker threads are scheduled by the kernel: a thread that has a step
\* to take keeps being scheduled, and every server->run() call returns.
Fairness == \A h \in Handles : WF_vars(threadLoop(h))

\* All behaviours, with fair workers.
FairSpecAll == Spec /\ Fairness

\* The native calls of one controller object with one pair of arguments, and
\* the workers of all its handles.
OneController == "thizA"
OneArgs == <<"dbX", "/sdcard">>
OneNext ==
    \/ setup(OneController, OneArgs[1], OneArgs[2])
    \/ finalize(OneController)
    \/ start(OneController)
    \/ stop(OneController)
    \/ \E h \in Handles : threadLoop(h)

\* The behaviours of one controller object, with fair workers.
FairSpec == Init /\ [][OneNext]_vars /\ Fairness

\* ------------------------------------------------------------ properties
\* The successor positions of a threadLoop() call that is past its open.
AfterRun(p) ==
    CASE p = "run" -> {"run", "close"}
      [] p = "close" -> {"close", "check"}
      [] p = "check" -> {"check", "ret"}
      [] p = "ret" -> {"ret", "exited"}
      [] OTHER -> {p}

\* The flag of h is set while its worker is in server->run() or tearing down,
\* or the worker has read it as set.
StopSeen(h) ==
    \/ mDone[h] /\ pc[h] \in {"run", "close", "check"}
    \/ done[h] /\ pc[h] = "ret"

\* C1: a worker inside server->run() leaves it only by run() returning, and is
\* neither ended nor released before; with the flag set during run(), the
\* worker then only tears down, reads the flag as set, opens no device and
\* builds no server again, and ends; a released handle's worker stays ended.
C1_StopDuringRun ==
    [][\A h \in Handles :
        /\ pc[h] = "run" =>
            /\ pc'[h] \in {"run", "close"}
            /\ alloc'[h] = alloc[h]
            /\ nthreads'[h] = nthreads[h]
        /\ StopSeen(h) =>
            /\ pc'[h] \in AfterRun(pc[h])
            /\ fd'[h] \in {fd[h], NoFd}
            /\ server'[h] \in {server[h], NoServer}
            /\ (pc[h] = "check" /\ pc'[h] = "ret" => done'[h])
        /\ (pc[h] = "exited" /\ alloc[h] = "deleted") => pc'[h] = "exited"
    ]_vars

\* stop has set the flag of a handle whose worker is blocked in server->run().
C1_Witness ==
    \E h \in Handles :
        /\ pc[h] = "run" /\ mDone[h] /\ alloc[h] = "live"
        /\ server[h].fd \in openFds

\* C2: a failed open ends the worker at once: no server exists, no descriptor
\* is taken, the controllers' stored references and the handles are as before;
\* an ended worker runs again only through a start on its handle.
C2_OpenFailure ==
    [][\A h \in Handles :
        /\ (pc[h] = "open" /\ pc'[h] # "open" /\ fd'[h] = NoFd) =>
            /\ pc'[h] = "exited"
            /\ server'[h] = NoServer
            /\ openFds' = openFds
            /\ ctx' = ctx
            /\ alloc' = alloc /\ mDone' = mDone
            /\ err' = "none"
        /\ (pc[h] = "exited" /\ pc'[h] # "exited") =>
            \E c \in Controllers : ctx[c] = h /\ start(c)
    ]_vars

\* A worker has ended on a failed open: its handle is still allocated and
\* still stored by a controller.
C2_Witness ==
    \E h \in Handles, c \in Controllers :
        /\ pc[h] = "exited" /\ alloc[h] = "live" /\ ctx[c] = h
        /\ server[h] = NoServer /\ fd[h] = NoFd

C4_FlagOneWay ==
    [][\A h \in Handles :
        /\ (alloc[h] = "free" /\ alloc'[h] # "free") => ~mDone'[h]
        /\ mDone[h] => mDone'[h]
    ]_vars

\* A worker has read a set flag and gone on; the flag is still set.
C4_Witness ==
    \E h \in Handles : mDone[h] /\ pc[h] = "exited" /\ alloc[h] = "deleted"

\* C5: stop on a stored handle can be taken whatever its worker is doing;
\* it sets that handle's flag, clears the stored reference and changes
\* nothing of any worker.
C5_StopNonBlocking ==
    /\ [](\A c \in Controllers : (err = "none" /\ ctx[c] # NULL) => ENABLED stop(c))
    /\ [][\A c \in Controllers : (ctx[c] # NULL /\ stop(c)) =>
            /\ mDone'[ctx[c]]
            /\ ctx'[c] = NULL
            /\ UNCHANGED workerVars
            /\ err' = "none"
       ]_vars

\* stop has returned while the worker of the handle is still blocked in open.
C5_Witness ==
    \E h \in Handles :
        /\ mDone[h] /\ pc[h] = "open" /\ alloc[h] = "live"
        /\ \A c \in Controllers : ctx[c] # h

C7_StopOnCleared ==
    \A c \in Controllers :
        (err = "none" /\ ctx[c] = NULL) =>
            /\ ENABLED stop(c)
            /\ ~ENABLED (stop(c) /\ vars' # vars)

\* Every stored reference is cleared after a stop whose worker is still live.
C7_Witness ==
    /\ \A c \in Controllers : ctx[c] = NULL
    /\ \E h \in Handles : mDone[h] /\ pc[h] \in InLoop /\ alloc[h] = "live"
    /\ err = "none"

\* C8: a handle is released only in the CheckDone step of its own worker,
\* which is reached from server->run() through the teardown of the same call
\* and reads the flag as set; a released handle has its flag set.
C8_ReleaseOnlyByWorker ==
    /\ [](\A h \in Handles : alloc[h] = "deleted" => mDone[h])
    /\ [][\A h \in Handles :
            /\ (alloc[h] # "deleted" /\ alloc'[h] = "deleted") =>
                /\ CheckDone(h)
                /\ mDone[h] /\ done'[h]
                /\ server[h] = NoServer
            /\ (pc[h] # "check" /\ pc'[h] = "check") => pc[h] = "close"
            /\ (pc[h] # "close" /\ pc'[h] = "close") => pc[h] = "run"
       ]_vars

\* A worker has just released its handle and not yet returned.
C8_Witness ==
    \E h \in Handles : alloc[h] = "deleted" /\ pc[h] = "ret" /\ done[h]

\* C9: a handle whose flag is set and whose worker has ended is released.
C9_StoppedExitedReleased ==
    \A h \in Handles : (mDone[h] /\ pc[h] = "exited") => alloc[h] = "deleted"

\* C10: a setup step stores in the controller a handle that was not allocated
\* before, with the flag clear and the given database and storage path; its
\* thread is not started, and no worker, descriptor or other handle changes.
C10_SetupConstructs ==
    [][\A c \in Controllers, a \in SetupArgs :
        setup(c, a[1], a[2]) =>
            LET h == ctx'[c] IN
            /\ h \in Handles
            /\ alloc[h] = "free" /\ alloc'[h] = "live"
            /\ \A k \in Controllers : ctx[k] # h
            /\ ~mDone'[h]
            /\ mDatabase'[h] = a[1]
            /\ mStoragePath'[h] = a[2]
            /\ pc'[h] = "idle" /\ nthreads'[h] = 0
            /\ UNCHANGED workerVars
            /\ \A g \in Handles \ {h} :
                /\ alloc'[g] = alloc[g] /\ mDone'[g] = mDone[g]
                /\ mDatabase'[g] = mDatabase[g] /\ mStoragePath'[g] = mStoragePath[g]
            /\ err' = "none"
    ]_vars

\* A controller stores a handle fresh from setup while no device is open.
C10_Witness ==
    \E c \in Controllers :
        /\ ctx[c] # NULL /\ alloc[ctx[c]] = "live"
        /\ pc[ctx[c]] = "idle" /\ ~mDone[ctx[c]]
        /\ mDatabase[ctx[c]] = "dbY" /\ mStoragePath[ctx[c]] = "/mnt/usb"
        /\ openFds = {}

\* C11: an iteration is entered only from Thread::run or from a return of the
\* previous call and makes its one open first; a server is built only at
\* "ctor", which is reached only by an open that succeeded in that step, on
\* the descriptor of that open and with the thread's database; a worker in
\* server->run() has a server on its own open descriptor with the storage
\* path registered.
C11_OpenThenServer ==
    /\ [](\A h \in Handles :
            pc[h] = "run" =>
                /\ server[h].fd = fd[h] /\ fd[h] \in openFds
                /\ server[h].db = mDatabase[h]
                /\ server[h].storage = <<mStoragePath[h]>>)
    /\ [][\A h \in Handles :
            /\ (pc[h] # "open" /\ pc'[h] = "open") => pc[h] \in {"idle", "exited", "ret"}
            /\ (pc[h] = "open" /\ pc'[h] # "open") => pc'[h] \in {"ctor", "exited"}
            /\ (pc[h] # "ctor" /\ pc'[h] = "ctor") =>
                /\ pc[h] = "open"
                /\ fd'[h] \in Fds \ openFds
                /\ openFds' = openFds \cup {fd'[h]}
            /\ (fd'[h] # fd[h] /\ fd'[h] # NoFd) => pc[h] = "open"
            /\ (server[h] = NoServer /\ server'[h] # NoServer) =>
                /\ pc[h] = "ctor" /\ pc'[h] = "run"
                /\ fd[h] \in openFds
                /\ server'[h].fd = fd[h]
            /\ (pc[h] # "run" /\ pc'[h] = "run") => pc[h] = "ctor"
       ]_vars

\* A started, not stopped worker is in server->run() on the server it built.
C11_Witness ==
    \E c \in Controllers :
        /\ ctx[c] # NULL /\ ~mDone[ctx[c]] /\ pc[ctx[c]] = "run"
        /\ server[ctx[c]].storage = <<"/sdcard">>
        /\ server[ctx[c]].fd \in openFds

\* C12: a worker that reads the flag as clear after server->run() keeps its
\* handle, returns true and is at the open of a new iteration with no
\* descriptor and no server of the old one; from there the open leads to a
\* new server or to the end of the thread.
C12_RestartWhenClear ==
    [][\A h \in Handles :
        /\ (pc[h] = "check" /\ ~mDone[h] /\ pc'[h] # "check") =>
            /\ pc'[h] = "ret" /\ ~done'[h]
            /\ alloc'[h] = "live"
        /\ (pc[h] = "ret" /\ ~done[h] /\ pc'[h] # "ret") =>
            /\ pc'[h] = "open"
            /\ alloc'[h] = "live"
            /\ nthreads'[h] = 1
            /\ fd'[h] = NoFd /\ server'[h] = NoServer
        /\ (pc[h] = "ctor" /\ pc'[h] # "ctor") =>
            /\ pc'[h] = "run"
            /\ server'[h] # NoServer /\ server'[h].fd = fd[h]
    ]_vars

\* A worker has read the flag as clear and is about to return true.
C12_Witness ==
    \E h \in Handles :
        /\ pc[h] = "ret" /\ ~done[h] /\ ~mDone[h] /\ alloc[h] = "live"
        /\ server[h] = NoServer

\* C13: two controllers never store the same handle, and a stop on one of
\* them changes only the flag of its own handle and its own stored
\* reference: every other flag, the other reference and all workers are as
\* before.
C13_HandlesIndependent ==
    /\ [](\A c, k \in Controllers : (c # k /\ ctx[c] # NULL) => ctx[c] # ctx[k])
    /\ [][\A c \in Controllers :
            (ctx[c] # NULL /\ stop(c)) =>
                /\ \A h \in Handles \ {ctx[c]} : mDone'[h] = mDone[h]
                /\ \A k \in Controllers \ {c} : ctx'[k] = ctx[k]
                /\ alloc' = alloc /\ mDatabase' = mDatabase /\ mStoragePath' = mStoragePath
                /\ UNCHANGED workerVars
       ]_vars

\* One controller has stopped its running handle while the other controller
\* still stores its own running handle, whose flag is clear.
C13_Witness ==
    \E h, g \in Handles, c, k \in Controllers :
        /\ h # g /\ c # k
        /\ mDone[h] /\ pc[h] \in InLoop /\ ctx[c] = NULL
        /\ ~mDone[g] /\ pc[g] \in InLoop /\ ctx[k] = g

\* C14 as claimed: a failed open returns true, so the worker stays at the
\* open of a further iteration.
C14_OpenFailureRetries ==
    [][\A h \in Handles :
        (Open(h) /\ pc'[h] # "ctor") => pc'[h] = "open"
    ]_vars

\* C14 as amended: at the open, a failing open can always happen; it ends
\* the thread, and no open step leaves the worker at the open again.
C14_OpenFailureEnds ==
    \A h \in Handles :
        (err = "none" /\ pc[h] = "open") =>
            /\ ENABLED (Open(h) /\ fd'[h] = NoFd /\ pc'[h] = "exited" /\ nthreads'[h] = 0)
            /\ ~ENABLED (Open(h) /\ pc'[h] = "open")

\* A worker has ended on a failed open and no thread is left for its handle.
C14_Witness ==
    \E h \in Handles :
        /\ pc[h] = "exited" /\ alloc[h] = "live" /\ nthreads[h] = 0
        /\ ~mDone[h] /\ openFds = {}

\* The workers that hold a descriptor: from the successful open to close(fd).
Holders == {h \in Handles : pc[h] \in {"ctor", "run", "close"}}

\* C15: the open descriptors are exactly the descriptors of the workers
\* between their open and their close, one each and all different; a server
\* exists exactly from its construction to the teardown after run(); so a
\* worker at the flag read, between iterations, not started or ended has no
\* descriptor and no server; the descriptor table changes only in an Open or
\* CloseDelete step of a worker, never in a controller operation.
C15_FdAndServerPerIteration ==
    /\ [](/\ \A h \in Holders : fd[h] \in openFds
          /\ \A h, g \in Holders : h # g => fd[h] # fd[g]
          /\ Cardinality(openFds) = Cardinality(Holders)
          /\ \A h \in Handles : (server[h] # NoServer) <=> (pc[h] \in {"run", "close"})
          /\ \A h \in Handles : server[h] # NoServer => server[h].fd = fd[h])
    /\ [][/\ openFds' # openFds => \E h \in Handles : Open(h) \/ CloseDelete(h)
          /\ server' # server => \E h \in Handles : NewServer(h) \/ CloseDelete(h)
          /\ \A h \in Handles :
                (pc[h] = "close" /\ pc'[h] # "close") =>
                    /\ pc'[h] = "check"
                    /\ openFds' = openFds \ {fd[h]}
                    /\ server'[h] = NoServer
       ]_vars

\* A worker past its close still holds, in its local fd, the number that the
\* open of another worker has been given since.
C15_Witness ==
    \E h, g \in Handles :
        /\ h # g
        /\ pc[h] \in {"check", "ret"} /\ pc[g] = "run"
        /\ fd[h] = fd[g] /\ openFds = {fd[g]}

\* C16: under FairSpec a worker that is in its loop with the flag of its
\* handle set ends with the handle released, unless an open of the device
\* fails (the thread then ends with the handle allocated) or the process has
\* faulted; and a worker in server->run() stays there, with its handle and
\* its thread, in every step that is not the return of run().
C16_StopEventuallyReleases ==
    /\ \A h \in Handles :
        (mDone[h] /\ pc[h] \in InLoop) ~>
            \/ alloc[h] = "deleted" /\ pc[h] = "exited"
            \/ alloc[h] = "live" /\ pc[h] = "exited"
            \/ err # "none"
    /\ [][\A h \in Handles :
            (pc[h] = "run" /\ ~RunReturns(h)) =>
                /\ pc'[h] = "run"
                /\ alloc'[h] = alloc[h]
                /\ nthreads'[h] = nthreads[h]
       ]_vars

\* stop has set the flag after the worker read it as clear: the worker is
\* about to start one more iteration with the flag set.
C16_Witness ==
    \E h \in Handles :
        pc[h] = "ret" /\ ~done[h] /\ mDone[h] /\ alloc[h] = "live"

\* C17: no step reads or writes a released MtpThread; a released handle stays
\* released with its members as they were, is stored by no controller, has
\* its flag set, and its worker is at the return of the releasing call or
\* ended and never at an open again.
C17_NoUseAfterRelease ==
    /\ [](/\ err # "useafterfree"
          /\ \A h \in Handles :
                alloc[h] = "deleted" =>
                    /\ mDone[h]
                    /\ \A c \in Controllers : ctx[c] # h
                    /\ pc[h] \in {"ret", "exited"}
                    /\ pc[h] = "ret" => done[h])
    /\ [][\A h \in Handles :
            alloc[h] = "deleted" =>
                /\ alloc'[h] = "deleted"
                /\ mDone'[h] = mDone[h]
                /\ mDatabase'[h] = mDatabase[h]
                /\ mStoragePath'[h] = mStoragePath[h]
                /\ pc'[h] \in {pc[h], "exited"}
       ]_vars

\* A worker has released its handle and ended while another handle is still
\* stored and its worker is in its loop.
C17_Witness ==
    \E h, g \in Handles, c \in Controllers :
        /\ alloc[h] = "deleted" /\ pc[h] = "exited"
        /\ ctx[c] = g /\ alloc[g] = "live" /\ pc[g] \in InLoop
        /\ err = "none"

\* C18: a start on a cleared stored reference can be taken and every such
\* step is the null dereference; a start on a stored handle is no fault and
\* touches the worker of that handle only; so after a stop, whose step clears
\* the reference, a start is a fault until a setup stores a new handle.
C18_StartUnchecked ==
    /\ [](\A c \in Controllers :
            /\ (err = "none" /\ ctx[c] = NULL) =>
                /\ ENABLED start(c)
                /\ ~ENABLED (start(c) /\ err' # "nullderef")
            /\ (err = "none" /\ ctx[c] # NULL) =>
                /\ ENABLED start(c)
                /\ ~ENABLED (start(c) /\ err' # "none"))
    /\ [][\A c \in Controllers :
            /\ (ctx[c] # NULL /\ start(c)) =>
                /\ \A h \in Handles \ {ctx[c]} : pc'[h] = pc[h]
                /\ pc[ctx[c]] \in {"idle", "exited"} /\ pc'[ctx[c]] = "open"
                /\ UNCHANGED <<ctx, heapVars>>
            /\ (ctx[c] = NULL /\ ctx'[c] # NULL) => \E a \in SetupArgs : setup(c, a[1], a[2])
       ]_vars

\* The process has faulted in a start on a cleared reference, after a stop
\* of a handle whose worker had been started.
C18_Witness ==
    /\ err = "nullderef"
    /\ \E h \in Handles : mDone[h] /\ pc[h] # "idle"

\* A handle that is allocated, not marked done and stored by no controller.
Orphan(h) == alloc[h] = "live" /\ ~mDone[h] /\ \A c \in Controllers : ctx[c] # h

\* Orphan(h) in the state a step leads to.
OrphanNext(h) == alloc'[h] = "live" /\ ~mDone'[h] /\ \A c \in Controllers : ctx'[c] # h

\* C19: a setup on a controller that stores a handle replaces the stored
\* reference and leaves the flag and the allocation of the earlier handle as
\* they were; a handle that is allocated, not marked done and stored by no
\* controller stays so in every step.
C19_SecondSetupOrphans ==
    [][/\ \A c \in Controllers, a \in SetupArgs :
            (ctx[c] # NULL /\ setup(c, a[1], a[2])) =>
                /\ ctx'[c] # ctx[c]
                /\ mDone'[ctx[c]] = mDone[ctx[c]]
                /\ alloc'[ctx[c]] = alloc[ctx[c]]
                /\ pc'[ctx[c]] = pc[ctx[c]]
                /\ OrphanNext(ctx[c])
       /\ \A h \in Handles : Orphan(h) => OrphanNext(h)
    ]_vars

\* The worker of a handle that a second setup has overwritten is in
\* server->run().
C19_Witness ==
    \E h \in Handles : Orphan(h) /\ pc[h] = "run"

====
